---- MODULE Spec2Model ----
(***************************************************************************)
(* A model of patchwork's patch dependency and synchronization engine:     *)
(* the dependency grapher (utils/graph.ts), the manifest commands          *)
(* (commands/deps.ts, drop.ts, export.ts), the sync and resume loops       *)
(* (commands/sync.ts) and the resolution cache (the rerere functions of    *)
(* utils/commit-message.ts).                                               *)
(*                                                                         *)
(* Patch names are modelled by the naturals 1..MaxPatches; their order <   *)
(* stands for the code-unit order Array.prototype.sort() uses on the       *)
(* zero-padded names ("001-a.patch" < "002-b.patch").                      *)
(***************************************************************************)
EXTENDS Integers, Sequences, FiniteSets, TLC

\* Number of patch names in the universe.
MaxPatches == 3

Names == 1..MaxPatches

\* Total number of entries all dependency lists of a drawn manifest may hold.
MaxDepEntries == MaxPatches

VARIABLES
  patchFiles,   \* the enumeration order listPatchRefs() returned (a sequence of names)
  patches,      \* config.patches as persisted: the manifest, name -> entry
  sorted,       \* outcome of topologicalSort(buildDependencyGraph(patchFiles, patches))
  refs,         \* refs/patchwork/patches: the set of stored patch names
  last,         \* the manifest command that ran last and how it ended
  build,        \* the commits on the build branch since it was last recreated
  syncState,    \* sync-state.json: the persisted SyncState, or NoSyncState
  rrCache,      \* .git/rr-cache: conflict hash -> what the entry holds
  rrRefs,       \* refs/patchwork/rerere: the hashes that have a shared reference
  pending,      \* the conflict left in the working tree, and whether it is resolved
  run,          \* history: the sync or resume run that ended last
  localStore,   \* refs/patchwork/patches: stored name -> content of its blob
  remoteStore,  \* the same namespace on the remote
  call,         \* the name the last store call was about, and the text it returned
  repo,         \* branches, upstream tip and working tree around the reset step
  tmp,          \* the temporary staging locations that exist in os.tmpdir()
  unmerged,     \* the paths git status reports after git rerere ran on a failed apply
  parsed,       \* what parsePatch returned for the patch text read last
  spelling      \* the characters of each patch name

syncVars == <<build, syncState, rrCache, rrRefs, pending, run>>

storeVars == <<localStore, remoteStore, call>>

attemptVars == <<tmp, unmerged, parsed, spelling>>

vars == <<patchFiles, patches, sorted, refs, last, syncVars, storeVars, repo, attemptVars>>

----------------------------------------------------------------------------
(* Sequences *)

Range(s) == {s[i] : i \in 1..Len(s)}

IndexOf(s, x) == CHOOSE i \in 1..Len(s) : s[i] = x /\ \A j \in 1..(i - 1) : s[j] # x

RECURSIVE SumLen(_, _)
SumLen(f, S) ==
  IF S = {} THEN 0
  ELSE LET x == CHOOSE y \in S : TRUE IN Len(f[x]) + SumLen(f, S \ {x})

\* Array.prototype.sort() with the default comparator, on names.
RECURSIVE InsertSorted(_, _)
InsertSorted(x, s) ==
  IF s = <<>> THEN <<x>>
  ELSE IF x < Head(s) THEN <<x>> \o s
  ELSE <<Head(s)>> \o InsertSorted(x, Tail(s))

RECURSIVE SortNames(_)
SortNames(s) == IF s = <<>> THEN <<>> ELSE InsertSorted(Head(s), SortNames(Tail(s)))

\* new Set(array), in insertion order: the first occurrence of each element.
RECURSIVE Dedup(_)
Dedup(s) ==
  IF s = <<>> THEN <<>>
  ELSE LET r == Dedup(SubSeq(s, 1, Len(s) - 1))
       IN IF s[Len(s)] \in Range(r) THEN r ELSE Append(r, s[Len(s)])

\* The ascending sequence of the elements of a set of names.
RECURSIVE SetToSeq(_)
SetToSeq(S) ==
  IF S = {} THEN <<>>
  ELSE LET m == CHOOSE x \in S : \A y \in S : x <= y
       IN <<m>> \o SetToSeq(S \ {m})

----------------------------------------------------------------------------
(* The manifest (git.ts PatchMetadataSchema).  An entry's dependencies is  *)
(* a sequence; <<>> stands for both an absent and an empty list, which the *)
(* program reads alike (metadata?.dependencies ?? []) and never writes     *)
(* apart.  status "none" is an absent status, read as "active".            *)

NoEntry == [present |-> FALSE, dependencies |-> <<>>, status |-> "none", upstreamPR |-> FALSE]

EmptyEntry == [NoEntry EXCEPT !.present = TRUE]

Dependencies(manifest, patch) == manifest[patch].dependencies

EmptyManifest == [n \in Names |-> NoEntry]

\* report: the path an error message names, <<>> when it names none.
Command(op, outcome) == [op |-> op, outcome |-> outcome, report |-> <<>>]

NoCommand == Command("none", "none")

----------------------------------------------------------------------------
(* The resolution cache (utils/commit-message.ts 155-400) and the          *)
(* SyncState (commands/sync.ts).  The conflict a patch's three-way apply   *)
(* leaves has one hash, written as the patch's name.  A cache entry is     *)
(* "absent", "pre" (the pre-conflict text only), "post" (the resolved text *)
(* only) or "both" (the pre-conflict and the resolved text: the operator's *)
(* own entry, one materialised from a shared reference, or one git rerere  *)
(* recorded from the operator's resolution).                               *)

Hashes == Names

ConflictHash(patch) == patch

EmptyCache == [h \in Hashes |-> "absent"]

CacheEntries == {"absent", "pre", "post", "both"}

HasPostimage(entry) == entry \in {"post", "both"}

\* git rerere replays an entry that holds both texts.
HasBothTexts(entry) == entry = "both"

\* The saved copy is written by its content: the temporary path is fresh
\* (Date.now()) and the copy is not changed while a SyncState names it.
NullPath == [isNull |-> TRUE, saved |-> EmptyCache]

\* An rr-cache directory exists exactly when it holds an entry.
saveUserRerereCache(cache) ==
  IF cache = EmptyCache THEN NullPath ELSE [isNull |-> FALSE, saved |-> cache]

restoreUserRerereCache(tempPath) ==
  IF tempPath.isNull THEN EmptyCache ELSE tempPath.saved

\* Faulty variant: the cache directory is left as it is.
clearNothing == rrCache

clearRerereCache == EmptyCache

restoreRerereFromRefs(cache, stored) ==
  [h \in Hashes |-> IF h \in stored THEN "both" ELSE cache[h]]

listLocalRerereEntries(cache) == {h \in Hashes : cache[h] # "absent"}

captureNewRerereEntries(cache, previousHashes) ==
  {h \in listLocalRerereEntries(cache) \ previousHashes : HasPostimage(cache[h])}

\* Faulty variant: every new hash gets a reference, whatever the entry holds.
storeRerereRefsUnchecked(stored, cache, hashes) == stored \cup hashes

\* storeRerereRef for each hash: an entry without both texts is skipped.
storeRerereRefs(stored, cache, hashes) ==
  stored \cup {h \in hashes : cache[h] = "both"}

\* commitMessage and originalBranch are the blocked patch's message and a
\* constant; cacheBefore is history, not a field of the file: the operator's
\* cache when the sync that wrote the state started.
NoSyncState ==
  [present |-> FALSE, currentPatch |-> 0, remainingPatches |-> <<>>, applied |-> 0,
   rerereHashesBeforeSync |-> {}, userRerereCachePath |-> NullPath,
   cacheBefore |-> EmptyCache]

NoPending == [patch |-> 0, resolved |-> FALSE]

NoRun ==
  [op |-> "none", outcome |-> "none", order |-> <<>>, applied |-> 0,
   branchReset |-> FALSE, attempted |-> <<>>,
   fromPatch |-> 0, fromRemaining |-> <<>>, recorded |-> 0]

SyncIdle ==
  /\ build = <<>>
  /\ syncState = NoSyncState
  /\ rrCache = EmptyCache
  /\ rrRefs = {}
  /\ pending = NoPending
  /\ run = NoRun

\* No patch content, no remote name and no store call is followed.
EmptyStore == <<>>

NoCall == [name |-> 0, content |-> <<>>, replaced |-> {}]

\* The reset step has not run and no branch or tree is followed.
NoRepo == [followed |-> FALSE]

\* Names no one of which is a part of another: each is one character.
PlainNames == [n \in Names |-> <<n>>]

\* No patch text was parsed.
NoParse == [outcome |-> "none", message |-> <<>>, diff |-> <<>>, subject |-> <<>>]

\* The specifications of the manifest commands and of the runs follow the
\* stored names (refs) only; contents, remote and working tree are followed
\* in SpecStore and SpecReset.
ContentsIdle ==
  /\ localStore = EmptyStore
  /\ remoteStore = EmptyStore
  /\ call = NoCall
  /\ repo = NoRepo
  /\ tmp = {}
  /\ unmerged = <<>>
  /\ parsed = NoParse
  /\ spelling = PlainNames

----------------------------------------------------------------------------
(* utils/graph.ts *)

\* Faulty variant: every patch with a manifest entry is a node, listed or not.
buildDependencyGraphOfManifest(files, manifest) ==
  LET nodes == Dedup(files \o SetToSeq({n \in Names : manifest[n].present}))
  IN [nodes |-> nodes,
      edges |-> [n \in Range(nodes) |-> Dependencies(manifest, n)]]

\* A graph is [nodes: the node Set in insertion order, edges: node -> list].
\* The edges Map iterates in the same (insertion) order as nodes.
buildDependencyGraph(files, manifest) ==
  LET nodes == Dedup(files)
  IN [nodes |-> nodes,
      edges |-> [n \in Range(nodes) |-> Dependencies(manifest, n)]]

\* for (const [patch, deps] of edges) for (const dep of deps): the pairs in order.
RECURSIVE EdgePairs(_, _)
EdgePairs(order, edges) ==
  IF order = <<>> THEN <<>>
  ELSE LET p == Head(order)
       IN [i \in 1..Len(edges[p]) |-> <<p, edges[p][i]>>] \o EdgePairs(Tail(order), edges)

\* reverseDeps: dependency -> the patches that pushed themselves, in push order.
reverseDepsOf(graph) ==
  LET pairs == EdgePairs(graph.nodes, graph.edges)
      isFor(n) == LET Test(pr) == pr[2] = n IN SelectSeq(pairs, Test)
  IN [n \in Range(graph.nodes) |-> [i \in 1..Len(isFor(n)) |-> isFor(n)[i][1]]]

\* The for-loop over dependents of the dequeued node (graph.ts 99-105).
RECURSIVE DecrementDependents(_, _, _)
DecrementDependents(dependents, inDegree, newReady) ==
  IF dependents = <<>> THEN [inDegree |-> inDegree, newReady |-> newReady]
  ELSE LET d == Head(dependents)
           newDegree == inDegree[d] - 1
       IN DecrementDependents(Tail(dependents),
                              [inDegree EXCEPT ![d] = newDegree],
                              IF newDegree = 0 THEN Append(newReady, d) ELSE newReady)

\* Faulty variant: the newly ready patches are pushed unsorted.
NoSortEnqueue(queue, newReady) == queue \o newReady

\* newReady.sort(); queue.push(...newReady)
EnqueueReady(queue, newReady) == queue \o SortNames(newReady)

\* The while-loop (graph.ts 90-110).
RECURSIVE KahnLoop(_, _, _, _)
KahnLoop(reverseDeps, queue, inDegree, result) ==
  IF queue = <<>> THEN result
  ELSE LET current == Head(queue)
           step == DecrementDependents(reverseDeps[current], inDegree, <<>>)
       IN KahnLoop(reverseDeps,
                   EnqueueReady(Tail(queue), step.newReady),
                   step.inDegree,
                   Append(result, current))

\* detectCycle's dfs (graph.ts 129-147): returns the cycle, or the visited set.
RECURSIVE Dfs(_, _, _, _, _)
RECURSIVE DfsDeps(_, _, _, _, _)
Dfs(node, path, visited, remaining, edges) ==
  IF node \in Range(path)
    THEN [found |-> TRUE,
          cycle |-> SubSeq(path, IndexOf(path, node), Len(path)) \o <<node>>,
          visited |-> visited]
  ELSE IF node \in visited
    THEN [found |-> FALSE, cycle |-> <<>>, visited |-> visited]
  ELSE LET deps == IF node \in DOMAIN edges THEN edges[node] ELSE <<>>
           r == DfsDeps(deps, Append(path, node), visited, remaining, edges)
       IN IF r.found THEN r
          ELSE [found |-> FALSE, cycle |-> <<>>, visited |-> r.visited \cup {node}]

DfsDeps(deps, path, visited, remaining, edges) ==
  IF deps = <<>> THEN [found |-> FALSE, cycle |-> <<>>, visited |-> visited]
  ELSE IF Head(deps) \in Range(remaining)
    THEN LET r == Dfs(Head(deps), path, visited, remaining, edges)
         IN IF r.found THEN r ELSE DfsDeps(Tail(deps), path, r.visited, remaining, edges)
  ELSE DfsDeps(Tail(deps), path, visited, remaining, edges)

\* The for-loop over remaining (graph.ts 149-154).
RECURSIVE DetectFrom(_, _, _, _)
DetectFrom(todo, visited, remaining, edges) ==
  IF todo = <<>> THEN remaining
  ELSE LET r == Dfs(Head(todo), <<>>, visited, remaining, edges)
       IN IF r.found THEN r.cycle ELSE DetectFrom(Tail(todo), r.visited, remaining, edges)

\* Faulty variant: the fallback, the remaining nodes as they are.
detectCycleFallback(remaining, edges) == remaining

detectCycle(remaining, edges) == DetectFrom(remaining, {}, remaining, edges)

\* Faulty variant: no dependency is counted, every patch is ready at once.
InDegreeNone(edges, patch) == 0

\* inDegree.set(patch, deps.length)
InDegreeOf(edges, patch) == Len(edges[patch])

SortOk(order) ==
  [kind |-> "ok", order |-> order, patch |-> 0, missingDep |-> 0, cycle |-> <<>>]

\* Faulty variant: the error names the dependency as the patch.
MissingDependencyErrorSwapped(patch, dep) ==
  [kind |-> "missing", order |-> <<>>, patch |-> dep, missingDep |-> patch, cycle |-> <<>>]

MissingDependencyError(patch, dep) ==
  [kind |-> "missing", order |-> <<>>, patch |-> patch, missingDep |-> dep, cycle |-> <<>>]

CyclicDependencyError(cycle) ==
  [kind |-> "cycle", order |-> <<>>, patch |-> 0, missingDep |-> 0, cycle |-> cycle]

topologicalSort(graph) ==
  LET nodes == graph.nodes
      edges == graph.edges
      pairs == EdgePairs(nodes, edges)
      IsMissing(pr) == pr[2] \notin Range(nodes)
      missing == SelectSeq(pairs, IsMissing)
      inDegree == [n \in Range(nodes) |-> InDegreeOf(edges, n)]
      IsZero(n) == inDegree[n] = 0
      queue == SortNames(SelectSeq(nodes, IsZero))
      result == KahnLoop(reverseDepsOf(graph), queue, inDegree, <<>>)
      NotVisited(n) == n \notin Range(result)
  IN IF missing # <<>> THEN MissingDependencyError(missing[1][1], missing[1][2])
     ELSE IF Len(result) # Cardinality(Range(nodes))
       THEN CyclicDependencyError(detectCycle(SelectSeq(nodes, NotVisited), edges))
     ELSE SortOk(result)

SortOf(files, manifest) == topologicalSort(buildDependencyGraph(files, manifest))

----------------------------------------------------------------------------
(* SpecGraph: topologicalSort applied to every enumeration order and every *)
(* dependency-list presentation of the manifests within the bounds.        *)

DepsOnly(f) == [n \in Names |-> IF f[n] = <<>> THEN NoEntry
                                 ELSE [EmptyEntry EXCEPT !.dependencies = f[n]]]

InitGraph ==
  \E k \in 1..MaxPatches :
    \E d \in [Names -> SUBSET Names] :
      /\ \A n \in Names : n > k => d[n] = {}
      /\ SumLen([n \in Names |-> SetToSeq(d[n])], Names) <= MaxDepEntries
      /\ patchFiles = [i \in 1..k |-> i]
      /\ patches = DepsOnly([n \in Names |-> SetToSeq(d[n])])
      /\ sorted = SortOf(patchFiles, patches)
      /\ refs = Range(patchFiles)
      /\ last = NoCommand
      /\ SyncIdle
      /\ ContentsIdle

Reverse(s) == [i \in 1..Len(s) |-> s[Len(s) + 1 - i]]

HasDuplicate(s) == Len(s) # Cardinality(Range(s))

\* The store enumerates the same names starting from another one.
RotateEnumeration ==
  /\ Len(patchFiles) > 1
  /\ patchFiles' = Append(Tail(patchFiles), Head(patchFiles))
  /\ patches' = patches
  /\ sorted' = SortOf(patchFiles', patches')
  /\ UNCHANGED <<refs, last, syncVars, storeVars, repo, attemptVars>>

\* The store enumerates the same names backwards.
ReverseEnumeration ==
  /\ Len(patchFiles) > 1
  /\ patchFiles' = Reverse(patchFiles)
  /\ patches' = patches
  /\ sorted' = SortOf(patchFiles', patches')
  /\ UNCHANGED <<refs, last, syncVars, storeVars, repo, attemptVars>>

\* The same dependency set of one patch, written in the opposite order.
ReorderDeps ==
  \E p \in Range(patchFiles) :
    /\ Len(patches[p].dependencies) > 1
    /\ patches' = [patches EXCEPT ![p].dependencies = Reverse(@)]
    /\ patchFiles' = patchFiles
    /\ sorted' = SortOf(patchFiles', patches')
    /\ UNCHANGED <<refs, last, syncVars, storeVars, repo, attemptVars>>

\* The same dependency set of one patch, with its first entry written twice.
DuplicateDep ==
  \E p \in Range(patchFiles) :
    /\ patches[p].dependencies # <<>>
    /\ \A n \in Names : ~HasDuplicate(patches[n].dependencies)
    /\ patches' = [patches EXCEPT ![p].dependencies = Append(@, @[1])]
    /\ patchFiles' = patchFiles
    /\ sorted' = SortOf(patchFiles', patches')
    /\ UNCHANGED <<refs, last, syncVars, storeVars, repo, attemptVars>>

NextGraph == RotateEnumeration \/ ReverseEnumeration \/ ReorderDeps \/ DuplicateDep

SpecGraph == InitGraph /\ [][NextGraph]_vars

----------------------------------------------------------------------------
(* The patch store (utils/graph.ts 239-327) as the commands use it *)

\* git for-each-ref lists the references in ascending name order.
listPatchRefs == SetToSeq(refs)

Max(S) == CHOOSE x \in S : \A y \in S : y <= x

\* Faulty variant: the stored names are counted.
getNextPatchNumberByCount == Cardinality(refs) + 1

\* The numeric prefix of a name is the name itself here.
getNextPatchNumber == IF refs = {} THEN 1 ELSE Max(refs) + 1

TotalDepEntries(manifest) == SumLen([n \in Names |-> manifest[n].dependencies], Names)

----------------------------------------------------------------------------
(* commands/deps.ts, commands/drop.ts, commands/export.ts.  Each operator  *)
(* returns how the command ended, the in-memory config it ended with and   *)
(* whether saveConfig was reached; the action persists the config only     *)
(* then.                                                                   *)

Ended(outcome, config, saved) ==
  [outcome |-> outcome, config |-> config, saved |-> saved, report |-> <<>>]

\* Faulty variant: the tested edge is saved although the sort failed.
addDependencySaveFirst(config, stored, patch, dependsOn) ==
  IF patch \notin Range(stored) THEN Ended("patchNotFound", config, FALSE)
  ELSE IF dependsOn \notin Range(stored) THEN Ended("depNotFound", config, FALSE)
  ELSE IF patch = dependsOn THEN Ended("selfDependency", config, FALSE)
  ELSE LET c1 == [config EXCEPT ![patch] = IF @.present THEN @ ELSE EmptyEntry]
           deps == c1[patch].dependencies
           c2 == [c1 EXCEPT ![patch].dependencies = Append(deps, dependsOn)]
       IN IF dependsOn \in Range(deps) THEN Ended("alreadyDepends", c1, FALSE)
          ELSE IF SortOf(stored, c2).kind # "ok" THEN Ended("sortFailed", c2, TRUE)
          ELSE Ended("ok", c2, TRUE)

\* Faulty variant: a patch is not compared with its dependency.
addDependencyNoSelfCheck(config, stored, patch, dependsOn) ==
  IF patch \notin Range(stored) THEN Ended("patchNotFound", config, FALSE)
  ELSE IF dependsOn \notin Range(stored) THEN Ended("depNotFound", config, FALSE)
  ELSE LET c1 == [config EXCEPT ![patch] = IF @.present THEN @ ELSE EmptyEntry]
           deps == c1[patch].dependencies
           c2 == [c1 EXCEPT ![patch].dependencies = Append(deps, dependsOn)]
           reverted == [c2 EXCEPT ![patch].dependencies = deps]
       IN IF dependsOn \in Range(deps) THEN Ended("alreadyDepends", c1, FALSE)
          ELSE IF SortOf(stored, c2).kind # "ok"
            THEN [Ended("sortFailed", reverted, FALSE) EXCEPT !.report = <<patch, dependsOn>>]
          ELSE Ended("ok", c2, TRUE)

addDependencyRun(config, stored, patch, dependsOn) ==
  IF patch \notin Range(stored) THEN Ended("patchNotFound", config, FALSE)
  ELSE IF dependsOn \notin Range(stored) THEN Ended("depNotFound", config, FALSE)
  ELSE IF patch = dependsOn THEN Ended("selfDependency", config, FALSE)
  ELSE LET c1 == [config EXCEPT ![patch] = IF @.present THEN @ ELSE EmptyEntry]
           deps == c1[patch].dependencies
           c2 == [c1 EXCEPT ![patch].dependencies = Append(deps, dependsOn)]
           reverted == [c2 EXCEPT ![patch].dependencies = deps]
       IN IF dependsOn \in Range(deps) THEN Ended("alreadyDepends", c1, FALSE)
          ELSE IF SortOf(stored, c2).kind # "ok"
            THEN [Ended("sortFailed", reverted, FALSE) EXCEPT !.report = <<patch, dependsOn>>]
          ELSE Ended("ok", c2, TRUE)

addDependency(patch, dependsOn) ==
  \E r \in {addDependencyRun(patches, listPatchRefs, patch, dependsOn)} :
     /\ patches' = IF r.saved THEN r.config ELSE patches
     /\ last' = [Command("addDependency", r.outcome) EXCEPT !.report = r.report]
     /\ UNCHANGED <<refs, patchFiles, sorted, syncVars, storeVars, repo, attemptVars>>

RemoveAll(s, x) == LET Keep(y) == y # x IN SelectSeq(s, Keep)

\* Faulty variant: the patch's whole dependency list is dropped.
removeEveryDependency(config, patch, dependsOn) ==
  IF ~config[patch].present THEN Ended("noMetadata", config, FALSE)
  ELSE IF dependsOn \notin Range(config[patch].dependencies)
    THEN Ended("doesNotDepend", config, FALSE)
  ELSE Ended("ok", [config EXCEPT ![patch].dependencies = <<>>], TRUE)

removeDependencyRun(config, patch, dependsOn) ==
  IF ~config[patch].present THEN Ended("noMetadata", config, FALSE)
  ELSE IF dependsOn \notin Range(config[patch].dependencies)
    THEN Ended("doesNotDepend", config, FALSE)
  ELSE Ended("ok",
             [config EXCEPT ![patch].dependencies = RemoveAll(@, dependsOn)],
             TRUE)

removeDependency(patch, dependsOn) ==
  \E r \in {removeDependencyRun(patches, patch, dependsOn)} :
     /\ patches' = IF r.saved THEN r.config ELSE patches
     /\ last' = Command("removeDependency", r.outcome)
     /\ UNCHANGED <<refs, patchFiles, sorted, syncVars, storeVars, repo, attemptVars>>

\* String.prototype.includes
includes(text, part) ==
  \E i \in 1..(Len(text) - Len(part) + 1) :
    SubSeq(text, i, i + Len(part) - 1) = part

\* drop([patchName]): the first listed name that equals patchName or includes it.
drop(patchName) ==
  LET Matches(p) == p = patchName \/ includes(spelling[p], spelling[patchName])
      found == SelectSeq(listPatchRefs, Matches)
  IN IF found = <<>>
       THEN /\ last' = Command("drop", "notFound")
            /\ UNCHANGED <<refs, patches, patchFiles, sorted, syncVars, storeVars, repo, attemptVars>>
       ELSE /\ refs' = refs \ {found[1]}
            /\ patches' = [patches EXCEPT ![found[1]] = NoEntry]
            /\ last' = Command("drop", "ok")
            /\ UNCHANGED <<patchFiles, sorted, syncVars, storeVars, repo, attemptVars>>

\* exportPatch(branch, {dependsOn, upstreamPR}): existing is the manifest entry
\* whose sourceBranch is the branch (0: none, a new name is numbered);
\* dependsOn = <<>> stands for an absent option, prUrl for a given or detected PR.
exportPatch(existing, dependsOn, prUrl) ==
  LET patchName == IF existing # 0 THEN existing ELSE getNextPatchNumber
      kept == IF existing # 0 THEN patches[existing] ELSE NoEntry
      patchMetadata ==
        [present |-> TRUE,
         status |-> "active",
         dependencies |-> IF dependsOn # <<>> THEN dependsOn ELSE kept.dependencies,
         upstreamPR |-> prUrl \/ kept.upstreamPR]
  IN /\ patchName \in Names
     /\ refs' = (refs \ {patchName}) \cup {patchName}
     /\ patches' = [patches EXCEPT ![patchName] = patchMetadata]
     /\ last' = Command("exportPatch", "ok")
     /\ UNCHANGED <<patchFiles, sorted, syncVars, storeVars, repo, attemptVars>>

----------------------------------------------------------------------------
(* SpecDeps: the commands that change dependency lists or the store,       *)
(* started from an initialised repository without patches.                 *)

InitDeps ==
  /\ refs = {}
  /\ patches = EmptyManifest
  /\ last = NoCommand
  /\ patchFiles = <<>>
  /\ sorted = SortOk(<<>>)
  /\ SyncIdle
  /\ ContentsIdle

\* --depends-on given at most once.
DependsOnOptions == {<<>>} \cup {<<n>> : n \in Names}

ExportStep ==
  \E existing \in {0} \cup {n \in Names : patches[n].present} :
    \E dependsOn \in DependsOnOptions :
      /\ exportPatch(existing, dependsOn, FALSE)
      /\ TotalDepEntries(patches') <= MaxDepEntries

AddDependencyStep ==
  \E patch \in Names : \E dependsOn \in Names :
    /\ addDependency(patch, dependsOn)
    /\ TotalDepEntries(patches') <= MaxDepEntries

RemoveDependencyStep ==
  \E patch \in Names : \E dependsOn \in Names : removeDependency(patch, dependsOn)

DropStep == \E patchName \in Names : drop(patchName)

NextDeps == ExportStep \/ AddDependencyStep \/ RemoveDependencyStep \/ DropStep

SpecDeps == InitDeps /\ [][NextDeps]_vars

----------------------------------------------------------------------------
(* SpecDrop: drop on stores whose names are spelled with two characters,   *)
(* so that a name can be a part of another.  git for-each-ref lists the    *)
(* names in the order of their characters, which is the order of Names.    *)

LexLess(s, t) ==
  \E i \in 1..(Len(t)) :
    /\ \A j \in 1..(i - 1) : j <= Len(s) /\ s[j] = t[j]
    /\ i > Len(s) \/ s[i] < t[i]

InitDrop ==
  /\ refs \in SUBSET Names
  /\ patches \in {m \in [Names -> {NoEntry, EmptyEntry}] : \A n \in Names : m[n].present => n \in refs}
  /\ last = NoCommand
  /\ patchFiles = <<>>
  /\ sorted = SortOk(<<>>)
  /\ SyncIdle
  /\ localStore = EmptyStore /\ remoteStore = EmptyStore /\ call = NoCall
  /\ repo = NoRepo
  /\ tmp = {} /\ unmerged = <<>> /\ parsed = NoParse
  /\ spelling \in {f \in [Names -> UNION {[1..n -> {0, 1}] : n \in 1..(MaxPatches - 1)}] :
                     \A n \in Names \ {MaxPatches} : LexLess(f[n], f[n + 1])}

SpecDrop == InitDrop /\ [][DropStep]_vars

----------------------------------------------------------------------------
(* commands/sync.ts.  What git does to one patch is an input of the run:   *)
(* "clean" (git apply --3way exits 0 and the commit succeeds), "conflict"  *)
(* (the three-way merge leaves conflicted files and git records the        *)
(* pre-conflict text in the cache) or "fatal" (readPatchRef, parsePatch,   *)
(* a file operation or the commit throws and the process ends there).      *)

ApplyOutcomes == {"clean", "conflict", "fatal"}

\* Faulty variant: only abandoned patches are filtered out.
IsActiveUnlessAbandoned(manifest, patchName) == manifest[patchName].status # "abandoned"

\* Faulty variant: no status is filtered out.
IsActiveAlways(manifest, patchName) == TRUE

\* metadata?.status ?? "active" is neither "merged" nor "abandoned".
IsActive(manifest, patchName) == manifest[patchName].status \notin {"merged", "abandoned"}

\* Faulty variant: the blocked patch stays in the remaining list.
RemainingFrom(list, patchName) == SubSeq(list, IndexOf(list, patchName), Len(list))

\* list.slice(list.indexOf(patchName) + 1)
RemainingAfter(list, patchName) == SubSeq(list, IndexOf(list, patchName) + 1, Len(list))

\* git apply --3way and tryRerereAutoResolve on a conflicting patch: git rerere
\* replays the entry when it holds both texts, else it records the
\* pre-conflict text and leaves the markers.
\* Faulty variant: a replayed resolution is never taken as clearing the conflict.
AutoResolvedNever(cache, patchName) == FALSE

AutoResolved(cache, patchName) == HasBothTexts(cache[ConflictHash(patchName)])

RecordPreimage(cache, patchName) ==
  IF cache[ConflictHash(patchName)] = "absent"
    THEN [cache EXCEPT ![ConflictHash(patchName)] = "pre"]
    ELSE cache

LoopEnd(end, cache, applied, commits, attempted, currentPatch, remainingPatches) ==
  [end |-> end, cache |-> cache, applied |-> applied, commits |-> commits,
   attempted |-> attempted, currentPatch |-> currentPatch,
   remainingPatches |-> remainingPatches]

\* The for-loop over the patches to apply, the same text in sync and in
\* syncContinue.  commits are the commits the loop made, attempted the patches
\* it reached.
RECURSIVE ApplyPatches(_, _, _, _, _, _, _)
ApplyPatches(list, i, outcomes, cache, applied, commits, attempted) ==
  IF i > Len(list)
    THEN LoopEnd("done", cache, applied, commits, attempted, 0, <<>>)
  ELSE LET patchName == list[i]
           reached == Append(attempted, patchName)
       IN IF outcomes[patchName] = "fatal"
            THEN LoopEnd("fatal", cache, applied, commits, reached, 0, <<>>)
          ELSE IF \/ outcomes[patchName] = "clean"
                  \/ AutoResolved(cache, patchName)
            THEN ApplyPatches(list, i + 1, outcomes, cache, applied + 1,
                              Append(commits, patchName), reached)
          ELSE LoopEnd("blocked", RecordPreimage(cache, patchName), applied, commits,
                       reached, patchName, RemainingAfter(list, patchName))

\* One pass of the loop body: mkdtemp(join(tmpdir(), "patchwork-")), and in
\* the finally block rm(patchTempDir, { recursive: true, force: true }).
AttemptTemp(temp) == (temp \cup {"patchTempDir"}) \ {"patchTempDir"}

\* syncContinue's commit of the blocked patch: writeFile(messagePath), git
\* commit -F, and rm(messagePath) when the commit did not throw.
TempAfterCommit(temp, committed) ==
  IF committed
    THEN temp \ {"patchwork-continue-msg.txt"}
    ELSE temp \cup {"patchwork-continue-msg.txt"}

\* Faulty variant: the order is computed after the build branch was recreated.
ResetBeforeSort(sortKind) == TRUE

\* git branch -D and git checkout -B come after the try block of the sort.
ResetReached(sortKind) == sortKind = "ok"

RunEnded(op, outcome, order, loop, branchReset, fromState, recorded) ==
  [op |-> op, outcome |-> outcome, order |-> order, applied |-> loop.applied,
   branchReset |-> branchReset,
   attempted |-> loop.attempted,
   fromPatch |-> fromState.currentPatch, fromRemaining |-> fromState.remainingPatches,
   recorded |-> recorded]

NoLoop == LoopEnd("none", EmptyCache, 0, <<>>, <<>>, 0, <<>>)

\* saveSyncState at the block of sync (sync.ts 352-367).
SyncBlockedState(loop, userRerereCachePath, cacheBefore) ==
  [present |-> TRUE,
   currentPatch |-> loop.currentPatch,
   remainingPatches |-> loop.remainingPatches,
   applied |-> loop.applied,
   rerereHashesBeforeSync |-> listLocalRerereEntries(loop.cache),
   userRerereCachePath |-> userRerereCachePath,
   cacheBefore |-> cacheBefore]

\* What git does to each patch of the list.  A run ends at the first patch
\* that blocks or fails, so the patches behind it have no outcome: they are
\* written "clean".
OutcomesFor(list) == [Range(list) -> ApplyOutcomes]

NothingBehind(list, loop, outcomes) ==
  \A i \in 1..Len(list) :
    list[i] \notin Range(loop.attempted) => outcomes[list[i]] = "clean"

\* sync(), started on a clean working tree (git checkout -B refuses to leave
\* unmerged files behind).
sync ==
  LET userRerereCachePath == saveUserRerereCache(rrCache)
      prepared == restoreRerereFromRefs(clearRerereCache, rrRefs)
      allPatchNames == listPatchRefs
      Active(patchName) == IsActive(patches, patchName)
      patchNames == SelectSeq(allPatchNames, Active)
  IN \E s \in {SortOf(patchNames, patches)} :
     LET reset == ResetReached(s.kind)
         early(outcome) ==
           /\ rrCache' = prepared
           /\ build' = IF outcome = "orderFail" /\ reset THEN <<>> ELSE build
           /\ run' = RunEnded("sync", outcome, run.order, NoLoop,
                              outcome = "orderFail" /\ reset, NoSyncState, 0)
           /\ UNCHANGED <<syncState, pending, tmp>>
     IN
     /\ pending.patch = 0
     /\ IF allPatchNames = <<>> THEN early("noPatches")
        ELSE IF patchNames = <<>> THEN early("noActive")
        ELSE IF s.kind # "ok" THEN early("orderFail")
        ELSE \E outcomes \in OutcomesFor(s.order) :
               \E loop \in {ApplyPatches(s.order, 1, outcomes, prepared, 0, <<>>, <<>>)} :
                  /\ NothingBehind(s.order, loop, outcomes)
                  /\ tmp' = AttemptTemp(tmp)
                  /\ build' = loop.commits
                  /\ rrCache' = IF loop.end = "done"
                                  THEN restoreUserRerereCache(userRerereCachePath)
                                  ELSE loop.cache
                  /\ syncState' = CASE loop.end = "done" -> NoSyncState
                                    [] loop.end = "blocked" ->
                                         SyncBlockedState(loop, userRerereCachePath, rrCache)
                                    [] OTHER -> syncState
                  /\ pending' = IF loop.end = "blocked"
                                  THEN [patch |-> loop.currentPatch, resolved |-> FALSE]
                                  ELSE pending
                  /\ run' = RunEnded("sync", loop.end, s.order, loop, reset,
                                     NoSyncState, 0)
     /\ UNCHANGED <<patchFiles, patches, sorted, refs, storeVars, repo, unmerged, parsed, spelling,
                 last, rrRefs>>

\* Faulty variant: the blocked patch is not counted when the run is resumed.
ResumedAppliedSame(applied) == applied

\* let applied = state.applied + 1
ResumedApplied(applied) == applied + 1

\* saveSyncState at the block of syncContinue (sync.ts 165-180).
ResumeBlockedState(loop, state) ==
  [present |-> TRUE,
   currentPatch |-> loop.currentPatch,
   remainingPatches |-> loop.remainingPatches,
   applied |-> loop.applied,
   rerereHashesBeforeSync |-> listLocalRerereEntries(loop.cache),
   userRerereCachePath |-> state.userRerereCachePath,
   cacheBefore |-> state.cacheBefore]

\* git rerere in syncContinue: the resolution of the pending conflict is
\* recorded when the operator removed the markers and the pre-conflict text is
\* in the cache.
RerereRecords ==
  /\ pending.patch # 0
  /\ pending.resolved
  /\ rrCache[ConflictHash(pending.patch)] = "pre"

\* syncContinue().  git commit fails when nothing is staged, that is when no
\* conflict is pending in the working tree.
syncContinue ==
  LET state == syncState
      recorded == IF RerereRecords THEN ConflictHash(pending.patch) ELSE 0
      afterRerere == IF RerereRecords
                       THEN [rrCache EXCEPT ![recorded] = "both"]
                       ELSE rrCache
      newRerereHashes == captureNewRerereEntries(afterRerere, state.rerereHashesBeforeSync)
      NotCommitted == LoopEnd("fatal", afterRerere, state.applied, <<>>, <<>>, 0, <<>>)
  IN IF ~state.present
       THEN /\ run' = RunEnded("resume", "noState", run.order, NoLoop, FALSE,
                               NoSyncState, 0)
            /\ UNCHANGED <<build, syncState, rrCache, rrRefs, pending,
                           patchFiles, patches, sorted, refs, storeVars, repo, attemptVars, last>>
     ELSE /\ rrRefs' = storeRerereRefs(rrRefs, afterRerere, newRerereHashes)
          /\ IF pending.patch = 0
               THEN /\ rrCache' = afterRerere
                    /\ tmp' = TempAfterCommit(tmp, FALSE)
                    /\ run' = RunEnded("resume", "fatal", run.order, NotCommitted,
                                       FALSE, state, recorded)
                    /\ UNCHANGED <<build, syncState, pending>>
               ELSE \E outcomes \in OutcomesFor(state.remainingPatches) :
                      \E loop \in {ApplyPatches(state.remainingPatches, 1, outcomes,
                                               afterRerere, ResumedApplied(state.applied),
                                               <<state.currentPatch>>, <<state.currentPatch>>)} :
                         /\ NothingBehind(state.remainingPatches, loop, outcomes)
                         /\ tmp' = AttemptTemp(TempAfterCommit(tmp, TRUE))
                         /\ build' = build \o loop.commits
                         /\ rrCache' = IF loop.end = "done"
                                         THEN restoreUserRerereCache(state.userRerereCachePath)
                                         ELSE loop.cache
                         /\ syncState' = CASE loop.end = "done" -> NoSyncState
                                           [] loop.end = "blocked" ->
                                                ResumeBlockedState(loop, state)
                                           [] OTHER -> syncState
                         /\ pending' = IF loop.end = "blocked"
                                         THEN [patch |-> loop.currentPatch, resolved |-> FALSE]
                                         ELSE NoPending
                         /\ run' = RunEnded("resume", loop.end, run.order, loop,
                                            FALSE, state, recorded)
          /\ UNCHANGED <<patchFiles, patches, sorted, refs, storeVars, repo, unmerged, parsed,
                      spelling, last>>

----------------------------------------------------------------------------
(* SpecSync: sync and resume runs over a fixed store and manifest, with    *)
(* the operator resolving or abandoning the conflict between the runs.     *)

\* The operator edits the conflicted files until no marker is left.
Resolve ==
  /\ pending.patch # 0
  /\ ~pending.resolved
  /\ pending' = [pending EXCEPT !.resolved = TRUE]
  /\ UNCHANGED <<patchFiles, patches, sorted, refs, storeVars, repo, attemptVars, last, build, syncState,
                 rrCache, rrRefs, run>>

\* The operator aborts as the message says: git reset --hard, git checkout.
Abort ==
  /\ pending.patch # 0
  /\ pending' = NoPending
  /\ UNCHANGED <<patchFiles, patches, sorted, refs, storeVars, repo, attemptVars, last, build, syncState,
                 rrCache, rrRefs, run>>

Entry(dependencies, status) ==
  [present |-> TRUE, dependencies |-> dependencies, status |-> status,
   upstreamPR |-> FALSE]

\* The manifests of a store 1..k the runs are checked on.
AllActive(k) == [n \in Names |-> IF n <= k THEN Entry(<<>>, "active") ELSE NoEntry]

\* The first patch depends on the last, the patches between them have no
\* manifest entry (active by default): the sorted order is 2, ..., k, 1.
Ordered(k) ==
  [n \in Names |-> IF n = k THEN Entry(<<>>, "active")
                   ELSE IF n = 1 /\ n < k THEN Entry(<<k>>, "active")
                   ELSE NoEntry]

\* The first patch is merged upstream, nothing depends on it.
FirstMerged(k) == [AllActive(k) EXCEPT ![1].status = "merged"]

\* No patch is active.
NoneActive(k) ==
  [n \in Names |-> IF n <= k THEN Entry(<<>>, IF n = 1 THEN "merged" ELSE "abandoned")
                   ELSE NoEntry]

\* The last patch depends on the first and the first on the last.
Cyclic(k) ==
  [AllActive(k) EXCEPT ![1].dependencies = <<k>>, ![k].dependencies = <<1>>]

\* The last patch depends on the first, which is merged and so filtered out.
DependsOnMerged(k) == [FirstMerged(k) EXCEPT ![k].dependencies = <<1>>]

SyncManifests(k) ==
  IF k = 0 THEN {EmptyManifest}
  ELSE {Ordered(k), FirstMerged(k), NoneActive(k), Cyclic(k), DependsOnMerged(k),
        [DependsOnMerged(k) EXCEPT ![1].status = "abandoned"]}

\* The operator's own cache holds nothing or one entry; the remote holds no
\* shared resolution or the one of the first patch's conflict.
UserCaches == {EmptyCache, [EmptyCache EXCEPT ![MaxPatches] = "both"]}

SharedRefs == {{}, {1}}

InitSync ==
  \E k \in 0..MaxPatches :
    /\ refs = 1..k
    /\ patches \in SyncManifests(k)
    /\ rrCache \in UserCaches
    /\ rrRefs \in SharedRefs
    /\ patchFiles = <<>>
    /\ sorted = SortOk(<<>>)
    /\ last = NoCommand
    /\ build = <<>>
    /\ syncState = NoSyncState
    /\ pending = NoPending
    /\ run = NoRun
    /\ ContentsIdle

NextSync == sync \/ syncContinue \/ Resolve \/ Abort

SpecSync == InitSync /\ [][NextSync]_vars

----------------------------------------------------------------------------
(* SpecPromote: the promotion step of syncContinue (sync.ts 106-113) on    *)
(* every cache and every snapshot.  Between the block and the resume the   *)
(* cache is in the operator's hands, so an entry may hold any of the texts. *)

BlockedWith(previousHashes) ==
  [NoSyncState EXCEPT !.present = TRUE, !.currentPatch = 1,
                      !.rerereHashesBeforeSync = previousHashes]

InitPromote ==
  /\ rrCache \in [Hashes -> CacheEntries]
  /\ \E previousHashes \in SUBSET Hashes : syncState = BlockedWith(previousHashes)
  /\ rrRefs = {}
  /\ refs = {1}
  /\ patches = EmptyManifest
  /\ patchFiles = <<>>
  /\ sorted = SortOk(<<>>)
  /\ last = NoCommand
  /\ build = <<>>
  /\ pending = [patch |-> 1, resolved |-> TRUE]
  /\ run = NoRun
  /\ ContentsIdle

\* captureNewRerereEntries(state.rerereHashesBeforeSync), storeRerereRef each.
PromoteNew ==
  /\ syncState.present
  /\ last = NoCommand
  /\ rrRefs' = storeRerereRefs(rrRefs, rrCache,
                               captureNewRerereEntries(rrCache, syncState.rerereHashesBeforeSync))
  /\ last' = Command("promote", "ok")
  /\ UNCHANGED <<patchFiles, patches, sorted, refs, storeVars, repo, attemptVars, build, syncState, rrCache, pending, run>>

NextPromote == PromoteNew

SpecPromote == InitPromote /\ [][NextPromote]_vars

----------------------------------------------------------------------------
(* SpecAutoResolve: the branch of the loop body taken when git apply       *)
(* --3way failed (sync.ts 337-347), on every outcome of git rerere.  Each  *)
(* path is not conflicted ("none"), modified on both sides ("UU") or added *)
(* on both sides ("AA"), and a conflicted path may still hold markers.     *)

\* tryRerereAutoResolve after git rerere ran: the lines of git status
\* --porcelain that start with "UU " are looked at.
tryRerereAutoResolve(files) ==
  LET unmergedFiles == {f \in DOMAIN files : files[f].status = "UU"}
  IN IF unmergedFiles = {} THEN FALSE
     ELSE \A f \in unmergedFiles : ~files[f].markers

InitAutoResolve ==
  /\ unmerged \in [Names -> {[status |-> "none", markers |-> FALSE]}
                            \cup [status : {"UU", "AA"}, markers : BOOLEAN]]
  /\ tmp = {}
  /\ parsed = NoParse
  /\ spelling = PlainNames
  /\ pending = NoPending
  /\ build = <<>>
  /\ syncState = NoSyncState
  /\ rrCache = EmptyCache
  /\ rrRefs = {}
  /\ run = NoRun
  /\ refs = {1}
  /\ patches = EmptyManifest
  /\ patchFiles = <<>>
  /\ sorted = SortOk(<<>>)
  /\ last = NoCommand
  /\ localStore = EmptyStore
  /\ remoteStore = EmptyStore
  /\ call = NoCall
  /\ repo = NoRepo

\* git add -A and git commit when the conflicts count as resolved, else the
\* patch is left for the operator.
AutoResolveStep ==
  /\ last = NoCommand
  /\ \E autoResolved \in {tryRerereAutoResolve(unmerged)} :
       IF autoResolved
         THEN /\ build' = Append(build, 1)
              /\ last' = Command("tryRerereAutoResolve", "true")
              /\ UNCHANGED pending
         ELSE /\ pending' = [patch |-> 1, resolved |-> FALSE]
              /\ last' = Command("tryRerereAutoResolve", "false")
              /\ UNCHANGED build
  /\ UNCHANGED <<patchFiles, patches, sorted, refs, syncState, rrCache, rrRefs, run,
                 storeVars, repo, attemptVars>>

SpecAutoResolve == InitAutoResolve /\ [][AutoResolveStep]_vars

----------------------------------------------------------------------------
(* SpecForget: rerereForget (unnamed/part_001 42-71) with every prefix     *)
(* on every set of shared references.  A hash is written with as many      *)
(* binary digits as there are hashes, so that hashes share prefixes.       *)

\* The name of the reference of hash h below refs/patchwork/rerere.
HashText(h) == [i \in 1..MaxPatches |-> ((h - 1) \div (2 ^ (MaxPatches - i))) % 2]

\* Faulty variant: the first digit decides.
startsWithFirst(text, prefix) == prefix = <<>> \/ text[1] = prefix[1]

\* String.prototype.startsWith
startsWith(text, prefix) ==
  /\ Len(prefix) <= Len(text)
  /\ \A i \in 1..Len(prefix) : text[i] = prefix[i]

InitForget ==
  /\ rrRefs \in SUBSET Hashes
  /\ rrCache = EmptyCache
  /\ build = <<>>
  /\ syncState = NoSyncState
  /\ pending = NoPending
  /\ run = NoRun
  /\ refs = {}
  /\ patches = EmptyManifest
  /\ patchFiles = <<>>
  /\ sorted = SortOk(<<>>)
  /\ last = NoCommand
  /\ ContentsIdle

\* The report holds the hashes the error lists, or the hash that was deleted;
\* call.content the argument.
rerereForget(hash) ==
  LET hashes == SetToSeq(rrRefs)
      Matches(h) == startsWith(HashText(h), hash)
      matching == SelectSeq(hashes, Matches)
      ended(outcome) == [Command("rerereForget", outcome) EXCEPT !.report = matching]
  IN /\ call' = [NoCall EXCEPT !.content = hash]
     /\ IF hash = <<>>
          THEN last' = Command("rerereForget", "hashRequired") /\ UNCHANGED rrRefs
        ELSE IF Len(matching) = 0
          THEN last' = ended("noMatch") /\ UNCHANGED rrRefs
        ELSE IF Len(matching) > 1
          THEN last' = ended("multiple") /\ UNCHANGED rrRefs
        ELSE last' = ended("ok") /\ rrRefs' = rrRefs \ {matching[1]}
     /\ UNCHANGED <<patchFiles, patches, sorted, refs, build, syncState, rrCache,
                    pending, run, localStore, remoteStore, repo, attemptVars>>

SpecForget ==
  /\ InitForget
  /\ [][\E hash \in UNION {[1..n -> {0, 1}] : n \in 0..MaxPatches} :
          rerereForget(hash)]_vars

----------------------------------------------------------------------------
(* The patch store with its contents (utils/graph.ts 239-314, git.ts 5-11). *)
(* A text is a sequence of characters; a store maps the names that have a   *)
(* reference to the text of the blob the reference points at.               *)

Whitespace == {" ", "\n"}

RECURSIVE trimStart(_)
trimStart(text) ==
  IF text # <<>> /\ Head(text) \in Whitespace THEN trimStart(Tail(text)) ELSE text

RECURSIVE trimEnd(_)
trimEnd(text) ==
  IF text # <<>> /\ text[Len(text)] \in Whitespace
    THEN trimEnd(SubSeq(text, 1, Len(text) - 1))
    ELSE text

\* String.prototype.trim
trim(text) == trimEnd(trimStart(text))

\* exec returns result.stdout.toString().trim()
exec(stdout) == trim(stdout)

\* git hash-object -w --stdin on the encoded content, then git update-ref:
\* the blob holds the content as passed, the reference replaces an older one.
storePatchRef(store, name, content) ==
  [n \in DOMAIN store \cup {name} |-> IF n = name THEN content ELSE store[n]]

\* exec(`git cat-file blob refs/patchwork/patches/<name>`)
readPatchRef(store, name) == exec(store[name])

\* Faulty variant: the whole namespace is removed.
deleteEveryPatchRef(store, name) == <<>>

\* git update-ref -d: the reference is removed, a missing one is no error.
deletePatchRef(store, name) == [n \in DOMAIN store \ {name} |-> store[n]]

\* What a transfer of 'refs/patchwork/*:refs/patchwork/*' does to the
\* receiving side: every name of the sending side is created or overwritten,
\* a name only the receiving side has is left as it is (no --prune).
Transfer(from, to) ==
  [n \in DOMAIN to \cup DOMAIN from |-> IF n \in DOMAIN from THEN from[n] ELSE to[n]]

\* git push --force <remote> 'refs/patchwork/*:refs/patchwork/*'
pushPatchRefs(local, remote) == Transfer(local, remote)

\* Faulty variant: a name the local side already has is not updated.
fetchNewPatchRefs(local, remote) == Transfer(local, remote)

\* git fetch <remote> 'refs/patchwork/*:refs/patchwork/*'; a reference to a
\* blob is updated without a fast-forward test.
fetchPatchRefs(local, remote) == Transfer(remote, local)

----------------------------------------------------------------------------
(* SpecStore: store, read, delete, push and fetch on one local namespace   *)
(* and one remote, both empty at the start.                                *)

\* The patch texts that are stored: with and without a final newline.
PatchTexts == {<<"a">>, <<"a", "\n">>}

InitStore ==
  /\ localStore = EmptyStore
  /\ remoteStore = EmptyStore
  /\ call = NoCall
  /\ repo = NoRepo
  /\ tmp = {}
  /\ unmerged = <<>>
  /\ parsed = NoParse
  /\ spelling = PlainNames
  /\ refs = {}
  /\ patches = EmptyManifest
  /\ patchFiles = <<>>
  /\ sorted = SortOk(<<>>)
  /\ last = NoCommand
  /\ SyncIdle

StoreFrame == UNCHANGED <<patchFiles, patches, sorted, syncVars, repo, attemptVars>>

StorePatchRefStep ==
  \E name \in Names, content \in PatchTexts :
    /\ localStore' = storePatchRef(localStore, name, content)
    /\ refs' = DOMAIN localStore'
    /\ call' = [NoCall EXCEPT !.name = name, !.content = content]
    /\ last' = Command("storePatchRef", "ok")
    /\ UNCHANGED remoteStore
    /\ StoreFrame

ReadPatchRefStep ==
  \E name \in Names :
    /\ IF name \in DOMAIN localStore
         THEN /\ call' = [NoCall EXCEPT !.name = name,
                                         !.content = readPatchRef(localStore, name)]
              /\ last' = Command("readPatchRef", "ok")
         ELSE /\ call' = [NoCall EXCEPT !.name = name]
              /\ last' = Command("readPatchRef", "NotFound")
    /\ UNCHANGED <<localStore, remoteStore, refs>>
    /\ StoreFrame

DeletePatchRefStep ==
  \E name \in Names :
    /\ localStore' = deletePatchRef(localStore, name)
    /\ refs' = DOMAIN localStore'
    /\ call' = [NoCall EXCEPT !.name = name]
    /\ last' = Command("deletePatchRef", "ok")
    /\ UNCHANGED remoteStore
    /\ StoreFrame

\* History: the names both sides hold with different contents.
Differing(local, remote) ==
  {n \in DOMAIN local \cap DOMAIN remote : local[n] # remote[n]}

PushStep ==
  /\ remoteStore' = pushPatchRefs(localStore, remoteStore)
  /\ call' = NoCall
  /\ last' = Command("push", "ok")
  /\ UNCHANGED <<localStore, refs>>
  /\ StoreFrame

FetchStep ==
  /\ localStore' = fetchPatchRefs(localStore, remoteStore)
  /\ refs' = DOMAIN localStore'
  /\ call' = [NoCall EXCEPT !.replaced = Differing(localStore, remoteStore)]
  /\ last' = Command("fetch", "ok")
  /\ UNCHANGED remoteStore
  /\ StoreFrame

NextStore ==
  StorePatchRefStep \/ ReadPatchRefStep \/ DeletePatchRefStep \/ PushStep \/ FetchStep

SpecStore == InitStore /\ [][NextStore]_vars

----------------------------------------------------------------------------
(* The patch text: createPatchWithMessage (commands/export.ts 167-199) and *)
(* parsePatch (commands/sync.ts 391-419).  A text is a sequence of         *)
(* characters as in the store above; the character groups the two          *)
(* functions look for ("diff --git ", "Subject: ", "[PATCH]") and the      *)
(* header lines the export writes are each one element of the sequence.    *)

\* Number of lines of a message, a diff or a stored text.
MaxLines == 4

DiffMarker == "diff --git "

\* String.prototype.split("\n"): the lines of a text, one line for the empty text.
RECURSIVE split(_)
split(text) ==
  IF \A i \in 1..Len(text) : text[i] # "\n" THEN <<text>>
  ELSE LET nl == CHOOSE i \in 1..Len(text) :
                   text[i] = "\n" /\ \A j \in 1..(i - 1) : text[j] # "\n"
       IN <<SubSeq(text, 1, nl - 1)>> \o split(SubSeq(text, nl + 1, Len(text)))

\* Array.prototype.join("\n")
RECURSIVE join(_)
join(lines) ==
  IF lines = <<>> THEN <<>>
  ELSE IF Len(lines) = 1 THEN lines[1]
  ELSE lines[1] \o <<"\n">> \o join(Tail(lines))

\* Array.prototype.findIndex for a set of matching lines: 0 when none matches.
findIndex(lines, matching) ==
  IF \E i \in 1..Len(lines) : lines[i] \in matching
    THEN CHOOSE i \in 1..Len(lines) :
           lines[i] \in matching /\ \A j \in 1..(i - 1) : lines[j] \notin matching
    ELSE 0

createPatchWithMessage(branch, commitMessage, diff) ==
  LET subject == split(commitMessage)[1]
      lines == <<<<"From ", branch>>,
                 <<"Date: ">>,
                 <<"Subject: ", "[PATCH]", " ">> \o subject,
                 <<"From: Patchwork Export <patchwork@local>">>,
                 <<"commit (patchwork export)">>,
                 <<>>>>
               \o split(commitMessage)
               \o <<<<>>, diff>>
  IN join(lines) \o <<"\n">>

\* subjectLine.replace(/^Subject:\s*\[PATCH\]\s*/u, ""): the line is
\* unchanged when the pattern does not match.
replaceSubjectPrefix(subjectLine) ==
  LET rest == trimStart(Tail(subjectLine))
  IN IF rest # <<>> /\ Head(rest) = "[PATCH]" THEN trimStart(Tail(rest)) ELSE subjectLine

\* while (messageLines[messageLines.length - 1]?.trim() === "") messageLines.pop()
RECURSIVE popBlankLines(_)
popBlankLines(messageLines) ==
  IF messageLines # <<>> /\ trim(messageLines[Len(messageLines)]) = <<>>
    THEN popBlankLines(SubSeq(messageLines, 1, Len(messageLines) - 1))
    ELSE messageLines

\* Faulty variant: the Subject line is preferred to the body.
parsePatchSubjectFirst(patchText) ==
  LET lines == split(patchText)
      diffStart == findIndex(lines, {l \in Range(lines) : startsWith(l, <<DiffMarker>>)})
      subjectAt == findIndex(lines, {l \in Range(lines) : startsWith(l, <<"Subject: ">>)})
      headerEnd == findIndex(lines, {l \in Range(lines) : trim(l) = <<>>})
      body == IF headerEnd # 0 /\ headerEnd < diffStart
                THEN trim(join(SubSeq(lines, headerEnd + 1, diffStart - 1)))
                ELSE <<>>
      message == IF subjectAt # 0 THEN trim(replaceSubjectPrefix(lines[subjectAt]))
                 ELSE IF body # <<>> THEN body ELSE <<"apply patch">>
  IN IF diffStart = 0 THEN [NoParse EXCEPT !.outcome = "invalid"]
     ELSE [outcome |-> "ok", message |-> message,
           diff |-> join(SubSeq(lines, diffStart, Len(lines))),
           subject |-> split(message)[1]]

\* The outcome "invalid" is the thrown Error("Invalid patch: missing diff content").
parsePatch(patchText) ==
  LET Result(lines, diffStart, fallbackSubject, headerEnd) ==
        LET messageLines == IF headerEnd # 0 /\ headerEnd < diffStart
                              THEN popBlankLines(SubSeq(lines, headerEnd + 1, diffStart - 1))
                              ELSE <<>>
            Named(body) ==
              LET message == IF body # <<>> THEN body ELSE fallbackSubject
                  first == split(message)[1]
              IN [outcome |-> "ok", message |-> message,
                  diff |-> join(SubSeq(lines, diffStart, Len(lines))),
                  subject |-> IF first # <<>> THEN first ELSE fallbackSubject]
        IN IF diffStart = 0 THEN [NoParse EXCEPT !.outcome = "invalid"]
           ELSE Named(trim(join(messageLines)))
      Parse(lines) ==
        LET subjectAt == findIndex(lines, {l \in Range(lines) : startsWith(l, <<"Subject: ">>)})
        IN Result(lines,
                  findIndex(lines, {l \in Range(lines) : startsWith(l, <<DiffMarker>>)}),
                  IF subjectAt # 0 THEN trim(replaceSubjectPrefix(lines[subjectAt]))
                  ELSE <<"apply patch">>,
                  findIndex(lines, {l \in Range(lines) : trim(l) = <<>>}))
  IN Parse(split(patchText))

----------------------------------------------------------------------------
(* SpecPatch: one patch text is stored, by an export or as it came from    *)
(* the remote, and is then read and parsed as the loop of sync does.       *)

\* The texts of at most MaxLines lines drawn from a set of lines.
LinesOf(lineSet) == UNION {[1..n -> lineSet] : n \in 1..MaxLines}

\* formatPRAsCommit and formatConventionalCommit: a title, then the trimmed
\* body after a blank line.  The message is not empty and is trimmed.
Messages ==
  {join(ls) : ls \in {l \in LinesOf({<<"x">>, <<>>, <<" ">>, <<DiffMarker, "x">>}) :
                        /\ trim(join(l)) = join(l)
                        /\ trim(l[1]) # <<>>
                        /\ Len(l) > 1 => l[2] = <<>>}}

\* exec(`git diff --binary ...`): trimmed, the first line is a diff header.
Diffs ==
  {join(ls) : ls \in {l \in LinesOf({<<"+", "x">>, <<" ">>, <<DiffMarker, "x">>}) :
                        /\ trim(join(l)) = join(l)
                        /\ l[1] = <<DiffMarker, "x">>}}

\* The texts another clone may have stored under a patch name.
ForeignTexts ==
  {join(ls) : ls \in LinesOf({<<"x">>, <<>>, <<" ">>, <<DiffMarker, "x">>,
                              <<"Subject: ", "[PATCH]", " ", "x">>,
                              <<"Subject: ", "x">>, <<"Subject: ", "[PATCH]">>})}

InitPatch ==
  /\ refs = {}
  /\ patches = EmptyManifest
  /\ last = NoCommand
  /\ patchFiles = <<>>
  /\ sorted = SortOk(<<>>)
  /\ SyncIdle
  /\ ContentsIdle

\* exportPatch up to storePatchRef (export.ts 83-86), on an empty store.
ExportPatchText ==
  /\ refs = {}
  /\ \E commitMessage \in Messages, diff \in Diffs :
       \E patchContent \in {createPatchWithMessage("b", commitMessage, diff)} :
         /\ localStore' = storePatchRef(localStore, getNextPatchNumber, patchContent)
         /\ refs' = DOMAIN localStore'
         /\ call' = [NoCall EXCEPT !.name = getNextPatchNumber, !.content = patchContent]
         /\ last' = [Command("exportPatch", "ok") EXCEPT !.report = <<commitMessage, diff>>]
         /\ UNCHANGED <<remoteStore, patches, patchFiles, sorted, syncVars, repo, attemptVars>>

\* A text another clone exported, brought by fetchPatchRefs.
FetchPatchText ==
  /\ refs = {}
  /\ \E text \in ForeignTexts :
       /\ remoteStore' = storePatchRef(remoteStore, 1, text)
       /\ localStore' = fetchPatchRefs(localStore, remoteStore')
       /\ refs' = DOMAIN localStore'
       /\ call' = NoCall
       /\ last' = Command("fetch", "ok")
       /\ UNCHANGED <<patches, patchFiles, sorted, syncVars, repo, attemptVars>>

\* const patchText = await readPatchRef(patchName); parsePatch(patchText)
ReadAndParse ==
  \E patchName \in refs :
    \E patchText \in {readPatchRef(localStore, patchName)} :
      /\ parsed = NoParse
      /\ call' = [NoCall EXCEPT !.name = patchName, !.content = patchText]
      /\ parsed' = parsePatch(patchText)
      /\ UNCHANGED <<localStore, remoteStore, refs, last, patches, patchFiles, sorted,
                     syncVars, repo, tmp, unmerged, spelling>>

SpecPatch == InitPatch /\ [][ExportPatchText \/ FetchPatchText \/ ReadAndParse]_vars

----------------------------------------------------------------------------
(* The reset step of sync (commands/sync.ts 276-310): the excluded paths   *)
(* are copied away, the build branch is deleted and recreated at the       *)
(* upstream tip, the copies are put back.  A tree gives every path its     *)
(* text or "absent"; nothing is staged, the index is the tree of HEAD.     *)

MaxResets == 2

Paths == {"cfg/a", "cfg/b", "src"}

Texts == {"absent", "x", "y"}

Trees == [Paths -> Texts]

\* config.exclude
exclude == <<"cfg">>

\* The files at or below a configured path.
Under(path) == IF path = "cfg" THEN {"cfg/a", "cfg/b"} ELSE {path} \cap Paths

\* existsSync(fullPath)
existsSync(work, path) == \E p \in Under(path) : work[p] # "absent"

\* savedPaths: the configured paths that exist, each copied to tempDir.
savedPaths(work) == SelectSeq(exclude, LAMBDA path : existsSync(work, path))

\* cp(tempPath, fullPath, { recursive: true }) for each saved path: every
\* saved file is written over the tree, a file the copy does not hold is
\* left as the checkout made it.
restoreExcluded(work, temp, saved) ==
  [p \in Paths |->
     IF (\E i \in 1..Len(saved) : p \in Under(saved[i])) /\ temp[p] # "absent"
       THEN temp[p]
       ELSE work[p]]

\* git branch -D <buildBranch>, its failure ignored: the branch that is
\* checked out cannot be deleted.
DeleteBranch(current, branch) == IF current = "build" THEN branch ELSE "none"

\* Faulty variant: an existing branch is kept where it points.
CreateIfAbsent(existing, startPoint) ==
  IF existing = "none" THEN startPoint ELSE existing

\* git checkout -B <buildBranch> <upstream>: the branch is created, or reset
\* when it exists, at the start point.
ForceCreate(existing, startPoint) == startPoint

\* The checkout refuses to switch when a file that differs between HEAD and
\* the target has local content it would overwrite.
CheckoutBlocked(head, target, work) ==
  \E p \in Paths : head[p] # target[p] /\ work[p] \notin {head[p], "absent"}

\* The working tree after the switch: a file equal in HEAD and the target
\* keeps its local content, any other file takes the target's.
CheckoutTree(head, target, work) ==
  [p \in Paths |-> IF head[p] = target[p] THEN work[p] ELSE target[p]]

RepoStates ==
  {r \in [followed : {TRUE}, current : {"build", "other"},
          build : {"none", "prior", "tip"}, head : Trees, upstream : Trees,
          work : Trees, resets : {0}, outcome : {"none"},
          origin : {[current |-> "none", build |-> "none"]}] :
     /\ r.current = "build" => r.build # "none"
     /\ (r.current = "build" /\ r.build = "tip") => r.head = r.upstream}

InitReset ==
  /\ repo \in RepoStates
  /\ tmp = {}
  /\ unmerged = <<>>
  /\ parsed = NoParse
  /\ spelling = PlainNames
  /\ localStore = EmptyStore
  /\ remoteStore = EmptyStore
  /\ call = NoCall
  /\ refs = {}
  /\ patches = EmptyManifest
  /\ patchFiles = <<>>
  /\ sorted = SortOk(<<>>)
  /\ last = NoCommand
  /\ SyncIdle

\* sync.ts 279-310.  A failing checkout throws and ends the run after the
\* branch was deleted.
ResetStep ==
  /\ repo.followed
  /\ repo.outcome # "failed"
  /\ repo.resets < MaxResets
  /\ LET saved == savedPaths(repo.work)
         temp == repo.work
         deleted == DeleteBranch(repo.current, repo.build)
         origin == IF repo.resets = 0
                     THEN [current |-> repo.current, build |-> repo.build]
                     ELSE repo.origin
     IN  IF CheckoutBlocked(repo.head, repo.upstream, repo.work)
           THEN repo' = [repo EXCEPT !.build = deleted, !.outcome = "failed",
                                     !.origin = origin]
           ELSE repo' = [repo EXCEPT
                           !.build = ForceCreate(deleted, "tip"),
                           !.current = "build",
                           !.head = repo.upstream,
                           !.work = restoreExcluded(
                                      CheckoutTree(repo.head, repo.upstream, repo.work),
                                      temp, saved),
                           !.resets = repo.resets + 1,
                           !.outcome = "reset",
                           !.origin = origin]
  /\ UNCHANGED <<patchFiles, patches, sorted, refs, last, syncVars, storeVars, attemptVars>>

NextReset == ResetStep

SpecReset == InitReset /\ [][NextReset]_vars

----------------------------------------------------------------------------
(* Graph properties stated independently of the sort *)

NodeSet == Range(patchFiles)

DepSet(n) == Range(patches[n].dependencies)

Resolvable == \A n \in NodeSet : DepSet(n) \subseteq NodeSet

RECURSIVE ReachFrom(_, _)
ReachFrom(frontier, seen) ==
  LET next == UNION {DepSet(n) : n \in frontier} \ seen
  IN IF next = {} THEN seen ELSE ReachFrom(next, seen \cup next)

\* The nodes n reaches through one or more dependency edges.
Reaches(n) == ReachFrom({n}, {})

Acyclic == \A n \in NodeSet : n \notin Reaches(n)

Position(order, n) == IndexOf(order, n)

\* C1: on a resolvable acyclic graph topologicalSort returns every node exactly
\* once, every dependency of a node before that node.
C1_SortRespectsEdges ==
  (Resolvable /\ Acyclic) =>
    /\ sorted.kind = "ok"
    /\ Len(sorted.order) = Cardinality(NodeSet)
    /\ Range(sorted.order) = NodeSet
    /\ \A n \in NodeSet : \A d \in DepSet(n) :
         Position(sorted.order, d) < Position(sorted.order, n)

\* A three-node acyclic graph with at least two edges has been sorted.
C1_Witness ==
  /\ Resolvable /\ Acyclic
  /\ Cardinality(NodeSet) = MaxPatches
  /\ Cardinality({n \in NodeSet : DepSet(n) # {}}) >= 2
  /\ sorted.kind = "ok"

\* The manifest with every dependency list sorted and without duplicates.
CanonicalManifest ==
  [n \in Names |-> [patches[n] EXCEPT !.dependencies = SetToSeq(DepSet(n))]]

\* C2: the returned order is the one returned for the ascending enumeration of
\* the same names and the ascending duplicate-free dependency lists.
C2_OrderIndependentOfPresentation ==
  sorted.kind = "ok" =>
    sorted = SortOf(SetToSeq(NodeSet), CanonicalManifest)

\* A sort succeeded on a permuted enumeration with a permuted or duplicated list.
C2_Witness ==
  /\ sorted.kind = "ok"
  /\ patchFiles # SetToSeq(NodeSet)
  /\ \E n \in NodeSet : patches[n].dependencies # SetToSeq(DepSet(n))


----------------------------------------------------------------------------
(* Manifest properties *)

ManifestDeps(manifest, n) == Range(manifest[n].dependencies)

RECURSIVE ManifestReach(_, _, _)
ManifestReach(manifest, frontier, seen) ==
  LET next == UNION {ManifestDeps(manifest, n) : n \in frontier} \ seen
  IN IF next = {} THEN seen ELSE ManifestReach(manifest, next, seen \cup next)

ManifestResolvable(manifest, stored) ==
  \A n \in Names : ManifestDeps(manifest, n) \subseteq stored

ManifestAcyclic(manifest) ==
  \A n \in Names : n \notin ManifestReach(manifest, {n}, {})

\* C3: the persisted dependency lists name stored patches only and no patch
\* reaches itself through them.
C3_ManifestAcyclicAndResolvable ==
  ManifestResolvable(patches, refs) /\ ManifestAcyclic(patches)

\* The edge patch -> dependsOn is new and dependsOn already reaches patch.
CreatesCycle(manifest, patch, dependsOn) ==
  /\ dependsOn \notin ManifestDeps(manifest, patch)
  /\ patch = dependsOn \/ patch \in ManifestReach(manifest, {dependsOn}, {})

\* C4: addDependency with an edge that would create a cycle ends in an error
\* and leaves every persisted dependency list as it was: a run that ended in
\* an error changed no list, and the edge a successful run appended did not
\* create a cycle.
C4_CyclicEdgeRejectedUnchanged ==
  [][last'.op = "addDependency"
       => IF last'.outcome = "ok"
            THEN \A patch \in Names : \A dependsOn \in Names :
                   patches'[patch].dependencies = Append(patches[patch].dependencies, dependsOn)
                     => ~CreatesCycle(patches, patch, dependsOn)
            ELSE \A n \in Names : patches'[n].dependencies = patches[n].dependencies]_vars

\* addDependency was refused by the sort on a manifest whose every dependency
\* is stored, so the refusal was for a cycle.
C4_Witness ==
  /\ last.op = "addDependency"
  /\ last.outcome = "sortFailed"
  /\ ManifestResolvable(patches, refs)
  /\ ManifestAcyclic(patches)
  /\ \E n \in Names : patches[n].dependencies # <<>>

----------------------------------------------------------------------------
(* Sync properties *)

IsPrefix(s, t) == Len(s) <= Len(t) /\ SubSeq(t, 1, Len(s)) = s

ActivePatches == {n \in refs : IsActive(patches, n)}

\* C5: a sync run that ends on an ordering failure has left the build branch
\* and the persisted SyncState as they were, has not recreated the branch and
\* has attempted no patch.
C5_OrderingFailureBeforeAnyMutation ==
  [][(run'.op = "sync" /\ run'.outcome = "orderFail")
       => /\ build' = build
          /\ syncState' = syncState
          /\ pending' = pending
          /\ ~run'.branchReset
          /\ run'.attempted = <<>>]_vars

\* A sync over stored active patches ended on an ordering failure.
C5_Witness ==
  /\ run.op = "sync"
  /\ run.outcome = "orderFail"
  /\ ActivePatches # {}
  /\ SortOf(SetToSeq(ActivePatches), patches).kind # "ok"

\* C6: the commits on the build branch are a prefix of the sorted order, each
\* patch at most once; at Done they are the whole order, every active patch
\* once, and the reported count is the number of active patches.
C6_CommitsFollowSortedOrder ==
  /\ IsPrefix(build, run.order)
  /\ Cardinality(Range(build)) = Len(build)
  /\ run.outcome = "done"
       => /\ build = run.order
          /\ Range(build) = ActivePatches
          /\ run.applied = Cardinality(ActivePatches)

\* A resumed run reached Done with every patch of the universe committed.
C6_Witness ==
  /\ run.op = "resume"
  /\ run.outcome = "done"
  /\ Len(build) = MaxPatches
  /\ build # SetToSeq(Range(build))

\* C7: at a block the SyncState names the blocked patch, the exact suffix of
\* the sorted order after it and the number of patches committed before it;
\* a resumed run starts with the blocked patch and goes on through the
\* remaining patches in order.
C7_BlockedStateAndResumeOrder ==
  /\ run.outcome = "blocked"
       => /\ syncState.present
          /\ run.order = build \o <<syncState.currentPatch>> \o syncState.remainingPatches
          /\ syncState.applied = Len(build)
  /\ (run.op = "resume" /\ run.attempted # <<>>)
       => /\ Head(run.attempted) = run.fromPatch
          /\ IsPrefix(run.attempted, <<run.fromPatch>> \o run.fromRemaining)
          /\ run.outcome = "done"
               => run.attempted = <<run.fromPatch>> \o run.fromRemaining

\* A resumed run committed the blocked patch and a later one, then blocked.
C7_Witness ==
  /\ run.op = "resume"
  /\ run.outcome = "blocked"
  /\ Len(run.attempted) > 2
  /\ syncState.applied > 1

\* C8: the SyncState is absent after every sync or resume run that ended
\* without blocking, and a present SyncState names a patch that is not
\* committed yet.
C8_SyncStateExactlyWhileBlocked ==
  /\ (run.op \in {"sync", "resume"} /\ run.outcome # "blocked") => ~syncState.present
  /\ syncState.present => syncState.currentPatch \notin Range(build)

\* C9: a sync that ends with all patches applied, without patches, without
\* active patches or on an ordering failure leaves the cache as it was when
\* the sync started, and a resumed run that reaches Done leaves it as it was
\* when the sync that blocked started.
C9_OperatorCacheRestored ==
  [][/\ (run'.op = "sync" /\ run'.outcome \in {"done", "noPatches", "noActive", "orderFail"})
          => rrCache' = rrCache
     /\ (run'.op = "resume" /\ run'.outcome = "done" /\ syncState.present)
          => rrCache' = syncState.cacheBefore]_vars

\* C10: the snapshot in the SyncState does not hold the blocked patch's
\* conflict entry, and a resolution git rerere recorded in a resumed run has a
\* shared reference when the run ends.
C10_ConflictEntryPromoted ==
  /\ syncState.present
       => ConflictHash(syncState.currentPatch) \notin syncState.rerereHashesBeforeSync
  /\ (run.op = "resume" /\ run.recorded # 0) => run.recorded \in rrRefs

\* C11: a reference is created only for an entry that holds both the
\* pre-conflict and the resolved text.
C11_OnlyCompleteEntriesPromoted ==
  [][\A h \in rrRefs' \ rrRefs : rrCache[h] = "both"]_vars

\* A promotion step created a reference while new entries lacking the resolved
\* text and lacking the pre-conflict text were in the cache.
C11_Witness ==
  /\ last = Command("promote", "ok")
  /\ rrRefs # {}
  /\ \E h \in Hashes \ (rrRefs \cup syncState.rerereHashesBeforeSync) : rrCache[h] = "pre"
  /\ \E h \in Hashes \ (rrRefs \cup syncState.rerereHashesBeforeSync) : rrCache[h] = "post"

Skipped(n) == patches[n].status \in {"merged", "abandoned"}

----------------------------------------------------------------------------
(* Properties of the patch store. *)

\* C13: a read returns exactly the content the reference's blob was stored
\* with, whitespace and newlines at both ends included.
C13_ReadReturnsStoredContent ==
  [][last'.op = "readPatchRef" /\ last'.outcome = "ok"
       => call'.content = localStore[call'.name]]_vars

\* C14: after a delete the name is neither listed nor readable, and every
\* other stored name is still listed and reads back what it read before.
C14_DeleteRemovesOnlyThatName ==
  [][last'.op = "deletePatchRef"
       => /\ call'.name \notin refs'
          /\ call'.name \notin DOMAIN localStore'
          /\ \A n \in DOMAIN localStore \ {call'.name} :
               /\ n \in refs'
               /\ n \in DOMAIN localStore'
               /\ readPatchRef(localStore', n) = readPatchRef(localStore, n)]_vars

\* A pushed name was deleted while another name stayed in the store.
C14_Witness ==
  /\ last.op = "deletePatchRef"
  /\ call.name \in DOMAIN remoteStore
  /\ call.name \notin refs
  /\ refs # {}

\* C15: after a push the remote namespace equals the local one, a name
\* deleted locally since an earlier push included.
C15_PushMakesRemoteEqualLocal ==
  [][last'.op = "push" => remoteStore' = localStore]_vars

\* C16: a fetch is not rejected and every name the remote holds resolves
\* locally to the remote's content afterwards.
C16_FetchOverwritesLocal ==
  [][last'.op = "fetch"
       => /\ last'.outcome = "ok"
          /\ \A n \in DOMAIN remoteStore :
               n \in DOMAIN localStore' /\ localStore'[n] = remoteStore[n]]_vars

\* A fetch ran while a name had different contents on the two sides.
C16_Witness ==
  /\ last.op = "fetch"
  /\ call.replaced # {}
  /\ \A n \in call.replaced : localStore[n] = remoteStore[n]

----------------------------------------------------------------------------
(* Properties of the reset step. *)

\* C17: a completed reset leaves the build branch checked out at the
\* upstream tip whatever it pointed at before, and a reset that follows a
\* reset leaves the working tree as it was.
C17_ResetAtUpstreamTipIdempotent ==
  [][repo.followed /\ repo'.resets > repo.resets
       => /\ repo'.build = "tip"
          /\ repo'.current = "build"
          /\ repo'.head = repo.upstream
          /\ repo.resets > 0 => repo'.work = repo.work]_vars

\* Two resets ran, the first of them with the build branch checked out at
\* another commit than the upstream tip.
C17_Witness ==
  /\ repo.followed
  /\ repo.resets >= 2
  /\ repo.origin = [current |-> "build", build |-> "prior"]
  /\ repo.head # repo.work

----------------------------------------------------------------------------
(* Properties of the sort's errors. *)

\* C19: when a dependency names no node the sort ends with MissingDependency
\* for a patch and a dependency of it that is no node, without an order,
\* also when the graph has a cycle as well.
C19_MissingDependencyFirst ==
  ~Resolvable =>
    /\ sorted.kind = "missing"
    /\ sorted.order = <<>>
    /\ sorted.patch \in NodeSet
    /\ sorted.missingDep \in DepSet(sorted.patch)
    /\ sorted.missingDep \notin NodeSet

\* A graph with a cycle and a dependency on a name that is no node.
C19_Witness ==
  /\ ~Resolvable
  /\ ~Acyclic
  /\ sorted.kind = "missing"

\* C20: on a resolvable graph with a cycle the sort ends with
\* CyclicDependency, and the reported cycle has at least two elements, the
\* first equal to the last, each depending on the one after it.
C20_ReportedCycleIsReal ==
  (Resolvable /\ ~Acyclic) =>
    /\ sorted.kind = "cycle"
    /\ Len(sorted.cycle) >= 2
    /\ sorted.cycle[1] = sorted.cycle[Len(sorted.cycle)]
    /\ \A i \in 1..(Len(sorted.cycle) - 1) :
         /\ sorted.cycle[i] \in NodeSet
         /\ sorted.cycle[i + 1] \in DepSet(sorted.cycle[i])

\* Two patches depend on each other and a third one, outside the cycle,
\* depends on one of them.
C20_Witness ==
  /\ Resolvable
  /\ sorted.kind = "cycle"
  /\ Len(sorted.cycle) = 3
  /\ \E n \in NodeSet : n \notin Range(sorted.cycle) /\ DepSet(n) # {}

----------------------------------------------------------------------------
(* Properties of the manifest commands' failures. *)

\* C21: the failure of an addDependency that would close a cycle names the
\* complete cycle, a path that returns to the patch it starts from.
C21_FailureCarriesCompleteCycle ==
  [][last'.op = "addDependency" /\ last'.outcome = "sortFailed"
       => /\ Len(last'.report) >= 3
          /\ last'.report[1] = last'.report[Len(last'.report)]]_vars

\* C22: addDependency of a patch on itself ends with an error before the
\* manifest is touched, for a stored and for an unknown patch, on every
\* manifest.
C22_SelfDependencyRejected ==
  \A p \in Names :
    \E r \in {addDependencyRun(patches, listPatchRefs, p, p)} :
      /\ r.outcome = IF p \in refs THEN "selfDependency" ELSE "patchNotFound"
      /\ ~r.saved
      /\ r.config = patches

\* A stored patch that has a dependency was asked to depend on itself.
C22_Witness ==
  /\ last.op = "addDependency"
  /\ last.outcome = "selfDependency"
  /\ \E n \in refs : patches[n].dependencies # <<>>

\* C23: a dependency command writes the manifest only when the sort of the
\* manifest it writes, over the stored patches, succeeds.
C23_SavedOnlyAfterSort ==
  [][last'.op \in {"addDependency", "removeDependency"} /\ patches' # patches
       => SortOf(listPatchRefs, patches').kind = "ok"]_vars

----------------------------------------------------------------------------
(* Properties of the runs' failures. *)

Last(s) == s[Len(s)]

\* C24: a SyncState is written only by a run that blocks on a conflict the
\* cache holds no complete resolution for; a run that fails otherwise leaves
\* the SyncState as it was and commits none but patches it reached before the
\* failing one.
C24_OnlyConflictsWriteSyncState ==
  [][/\ (syncState' # syncState /\ syncState'.present)
          => /\ run'.outcome = "blocked"
             /\ syncState'.currentPatch = Last(run'.attempted)
             /\ ~HasBothTexts(rrCache'[ConflictHash(syncState'.currentPatch)])
     /\ (run' # run /\ run'.outcome = "fatal")
          => /\ syncState' = syncState
             /\ \A n \in Range(build') :
                  \/ n \in Range(build) /\ run'.op = "resume"
                  \/ /\ n \in Range(run'.attempted)
                     /\ n # Last(run'.attempted)]_vars

\* A sync run committed a patch and then failed on the next one without a
\* conflict: no SyncState exists.
C24_Witness ==
  /\ run.op = "sync"
  /\ run.outcome = "fatal"
  /\ run.applied >= 1
  /\ Len(run.attempted) < Len(run.order)
  /\ ~syncState.present

\* C29: when a run has ended, no location that staged a diff or a commit
\* message for an apply attempt or for the commit of the blocked patch
\* exists any more.
C29_NoStagingLeftBehind == tmp = {}

\* C26: a sync on an empty store, or on a store whose every patch is merged
\* or abandoned, ends without error with nothing applied, the build branch
\* neither reset nor changed and the SyncState as it was.
C26_NothingToApplyTouchesNothing ==
  [][((refs = {} \/ \A n \in refs : Skipped(n)) /\ sync)
       => /\ run'.outcome = IF refs = {} THEN "noPatches" ELSE "noActive"
          /\ run'.applied = 0
          /\ run'.attempted = <<>>
          /\ ~run'.branchReset
          /\ build' = build
          /\ syncState' = syncState]_vars

\* A sync ended on a store of several patches none of which is active.
C26_Witness ==
  /\ run.op = "sync"
  /\ run.outcome = "noActive"
  /\ Cardinality(refs) >= 2
  /\ \E n \in refs : patches[n].status = "merged"

----------------------------------------------------------------------------
(* Properties of the shared resolutions' commands. *)

\* C27: forget deletes the one stored hash a non-empty prefix matches and
\* nothing else; with several matches it is rejected, lists them all and
\* deletes nothing; with no match or an empty prefix it is rejected and
\* deletes nothing.
C27_ForgetDeletesUniqueMatchOnly ==
  [][last'.op = "rerereForget"
       => LET matches == {h \in rrRefs : IsPrefix(call'.content, HashText(h))}
          IN IF call'.content # <<>> /\ Cardinality(matches) = 1
               THEN last'.outcome = "ok" /\ rrRefs' = rrRefs \ matches
               ELSE /\ last'.outcome # "ok"
                    /\ rrRefs' = rrRefs
                    /\ (call'.content # <<>> /\ matches # {})
                         => Range(last'.report) = matches]_vars

\* A shorter prefix that two stored hashes share was rejected with both
\* listed.
C27_Witness ==
  /\ last.op = "rerereForget"
  /\ last.outcome = "multiple"
  /\ Len(last.report) >= 2
  /\ Len(call.content) < MaxPatches

----------------------------------------------------------------------------
(* Properties of the numbering. *)

\* C28: the next number is 1 on an empty store and otherwise one more than
\* the greatest number of a stored name, so it is the number of no stored
\* name.
C28_NextNumberIsFresh ==
  /\ refs = {} => getNextPatchNumber = 1
  /\ refs # {} => /\ getNextPatchNumber - 1 \in refs
                  /\ \A n \in refs : n < getNextPatchNumber
  /\ getNextPatchNumber \notin refs

\* A patch was exported into a store whose numbers have a gap left by a drop.
C28_Witness ==
  /\ last.op = "exportPatch"
  /\ refs # {}
  /\ Cardinality(refs) < Max(refs)

----------------------------------------------------------------------------
(* Properties of the order among ready nodes. *)

Appended(i) == {sorted.order[j] : j \in 1..(i - 1)}

\* The nodes not yet appended before step i whose dependencies all are.
ReadyAt(i) == {n \in NodeSet \ Appended(i) : DepSet(n) \subseteq Appended(i)}

\* C30: every node of the sorted order is, at its step, the smallest of the
\* nodes that are ready at that step.
C30_SmallestReadyFirst ==
  sorted.kind = "ok" =>
    \A i \in 1..Len(sorted.order) :
      \A n \in ReadyAt(i) : sorted.order[i] <= n

----------------------------------------------------------------------------
(* Properties of the automatic resolution. *)

\* C25: a patch whose apply failed is committed by the loop only when no
\* conflicted path, of either kind, still holds a conflict marker.
C25_CommittedOnlyWithoutMarkers ==
  [][last'.op = "tryRerereAutoResolve" /\ build' # build
       => \A f \in Names : unmerged[f].status # "none" => ~unmerged[f].markers]_vars

----------------------------------------------------------------------------
(* C31: when an active patch lists a merged or abandoned patch as a        *)
(* dependency, sync ends at the ordering step with MissingDependency for   *)
(* such a pair, the build branch is not recreated, nothing is committed    *)
(* and no SyncState is written; addDependency, whose sort runs over every  *)
(* stored patch, accepts that very edge and saves that very manifest.      *)

DependsOnInactive(p, d) ==
  /\ p \in refs /\ d \in refs
  /\ IsActive(patches, p)
  /\ ~IsActive(patches, d)
  /\ d \in Range(patches[p].dependencies)

C31_DependencyOnInactiveFailsSync ==
  [][\A p \in Names : \A d \in Names :
       (DependsOnInactive(p, d) /\ sync) =>
          LET Active(n) == IsActive(patches, n)
              s == SortOf(SelectSeq(listPatchRefs, Active), patches)
              without == [patches EXCEPT ![p].dependencies = RemoveAll(@, d)]
              r == addDependencyRun(without, listPatchRefs, p, d)
          IN /\ run'.outcome = "orderFail"
             /\ s.kind = "missing"
             /\ DependsOnInactive(s.patch, s.missingDep)
             /\ ~run'.branchReset
             /\ run'.attempted = <<>>
             /\ build' = build
             /\ syncState' = syncState
             /\ r.outcome = "ok" /\ r.saved /\ r.config = patches]_vars

C31_Witness ==
  /\ run.op = "sync"
  /\ run.outcome = "orderFail"
  /\ ~run.branchReset
  /\ \E p \in Names : \E d \in Names : DependsOnInactive(p, d)

----------------------------------------------------------------------------
(* C32: addDependency(patch, dependsOn) ends with success whenever both    *)
(* are stored and distinct, the edge is new and the manifest with the edge *)
(* has no cycle; the manifest a successful run persists is the previous    *)
(* one with that one edge appended.                                        *)

WithEdge(manifest, patch, dependsOn) ==
  [manifest EXCEPT ![patch] =
     [(IF @.present THEN @ ELSE EmptyEntry)
        EXCEPT !.dependencies = Append(manifest[patch].dependencies, dependsOn)]]

C32_AcyclicNewEdgeAccepted ==
  [][\A patch \in Names : \A dependsOn \in Names :
       (/\ patch \in refs /\ dependsOn \in refs
        /\ patch # dependsOn
        /\ dependsOn \notin Range(patches[patch].dependencies)
        /\ ManifestAcyclic(WithEdge(patches, patch, dependsOn))
        /\ addDependency(patch, dependsOn))
       => /\ last'.outcome = "ok"
          /\ patches' = WithEdge(patches, patch, dependsOn)]_vars

----------------------------------------------------------------------------
(* Properties of the patch text. *)

TextRead == split(call.content)

IsDiffHeader(line) == line # <<>> /\ line[1] = DiffMarker

IsBlankLine(line) == \A i \in 1..Len(line) : line[i] \in Whitespace

FirstDiffHeader ==
  CHOOSE i \in 1..Len(TextRead) :
    IsDiffHeader(TextRead[i]) /\ \A j \in 1..(i - 1) : ~IsDiffHeader(TextRead[j])

\* The text between the first blank line and the first diff header, trimmed;
\* empty when no blank line comes before the header.
BodyRead ==
  LET blanks == {i \in 1..(FirstDiffHeader - 1) : IsBlankLine(TextRead[i])}
      firstBlank == CHOOSE i \in blanks : \A j \in blanks : i <= j
  IN IF blanks = {} THEN <<>>
     ELSE trim(join(SubSeq(TextRead, firstBlank + 1, FirstDiffHeader - 1)))

SubjectLines == {i \in 1..Len(TextRead) : TextRead[i] # <<>> /\ TextRead[i][1] = "Subject: "}

FirstSubjectLine == TextRead[CHOOSE i \in SubjectLines : \A j \in SubjectLines : i <= j]

HasPatchPrefix(line) == Len(line) >= 2 /\ line[2] = "[PATCH]"

C34_ExportedTextParsesBack ==
  (last.op = "exportPatch" /\ parsed # NoParse) =>
     /\ parsed.outcome = "ok"
     /\ parsed.message = last.report[1]
     /\ parsed.diff = last.report[2]

----------------------------------------------------------------------------
(* C35: the cache a sync run works on after its setup holds exactly the    *)
(* shared references, each with both texts, and nothing of the operator's  *)
(* own cache.  A run that ends before the loop leaves that cache behind; a *)
(* run that blocks or fails in the loop leaves it with the pre-conflict    *)
(* text of the blocked patch added.                                        *)

C35_CacheAfterSetupIsShared ==
  [][(sync /\ run'.outcome # "done") =>
       \A h \in Hashes :
         rrCache'[h] = IF h \in rrRefs THEN "both"
                       ELSE IF run'.outcome = "blocked" /\ h = ConflictHash(pending'.patch)
                         THEN "pre"
                       ELSE "absent"]_vars

\* A sync of an operator whose own cache held an entry the shared namespace
\* has not: the run blocked on another patch and the entry is gone.
C35_Witness ==
  /\ run.op = "sync"
  /\ run.outcome = "blocked"
  /\ syncState.cacheBefore[MaxPatches] = "both"
  /\ MaxPatches \notin rrRefs
  /\ rrRefs # {}
  /\ syncState.currentPatch # MaxPatches
  /\ rrCache[MaxPatches] = "absent"

----------------------------------------------------------------------------
(* C36: a resume run that committed the blocked patch ends with the        *)
(* SyncState deleted after the last patch, or with a SyncState whose       *)
(* remainingPatches is strictly shorter than the one it started from; so   *)
(* every such run brings the sync nearer to its end.                       *)

C36_ResumeMakesProgress ==
  [][(syncContinue /\ run'.op = "resume" /\ run'.attempted # <<>>) =>
       \/ run'.outcome = "done" /\ ~syncState'.present
       \/ /\ syncState'.present
          /\ Len(syncState'.remainingPatches) < Len(syncState.remainingPatches)]_vars

----------------------------------------------------------------------------
(* C37: on every manifest the commands reach, removeDependency(patch,      *)
(* dependsOn) saves the manifest with dependsOn taken out of the patch's   *)
(* list, the patch's other dependencies in their order and every other     *)
(* field and entry as before; when the patch does not depend on dependsOn  *)
(* saveConfig is not reached.                                              *)

IsSubSeqWithout(short, long, x) ==
  LET Keep(y) == y # x IN short = SelectSeq(long, Keep)

C37_RemoveDependencyFrame ==
  \A patch \in Names : \A dependsOn \in Names :
    \E r \in {removeDependencyRun(patches, patch, dependsOn)} :
      IF dependsOn \in Range(patches[patch].dependencies)
        THEN /\ r.outcome = "ok" /\ r.saved
             /\ dependsOn \notin Range(r.config[patch].dependencies)
             /\ IsSubSeqWithout(r.config[patch].dependencies,
                                patches[patch].dependencies, dependsOn)
             /\ r.config[patch].status = patches[patch].status
             /\ r.config[patch].upstreamPR = patches[patch].upstreamPR
             /\ r.config[patch].present
             /\ \A n \in Names \ {patch} : r.config[n] = patches[n]
        ELSE /\ r.outcome # "ok" /\ ~r.saved
             /\ r.config = patches

\* A dependency was removed and a dependency is still listed.
C37_Witness ==
  /\ last.op = "removeDependency"
  /\ last.outcome = "ok"
  /\ \E n \in Names : Len(patches[n].dependencies) = 1
  /\ TotalDepEntries(patches) = MaxDepEntries - 1

----------------------------------------------------------------------------
(* C38: drop of a name that is stored removes that name's reference and    *)
(* manifest entry and leaves every other reference and entry, whichever    *)
(* stored names have that name as a part.                                  *)

C38_ExactNameDropsItself ==
  [][\A patchName \in Names :
       (patchName \in refs /\ last'.op = "drop" /\ drop(patchName)) =>
          /\ refs' = refs \ {patchName}
          /\ patches' = [patches EXCEPT ![patchName] = NoEntry]]_vars

====
